---------------------------- MODULE Spec2Model ----------------------------
(***************************************************************************)
(* A model of the eventdispatcher package: the EventDispatcher (a map from *)
(* event name to a slice of listeners, guarded by an embedded RWMutex),    *)
(* the package-level registry of dispatcher instances, and the ParamsEvent *)
(* that is dispatched.                                                     *)
(*                                                                         *)
(* Go slices are modelled with their backing arrays: a slice header is a   *)
(* record [a |-> array id, len |-> length], the array holds cap elements,  *)
(* and two headers naming the same array alias each other, as they do in   *)
(* the range loops of dispatch and Off.                                    *)
(***************************************************************************)
EXTENDS Naturals, Sequences, FiniteSets, TLC

VARIABLES
    listeners,   \* EventDispatcher.listeners: present key -> slice header
    arrays,       \* backing arrays of the slices: array id -> elements (cap many)
    rw,           \* the embedded sync.RWMutex
    pc,           \* per thread: the statement it is at
    frame,        \* per thread: the arguments and locals of its call
    calls,        \* per thread: the listeners invoked by its current Dispatch
    pre,          \* per thread: the listener sequences (for a method of an
                  \* event: the events) when its call started
    ret,          \* per thread: the value its call returned (the event a
                  \* Dispatch returned is frame.result)
    dispatchers,  \* the package variable dispatchers: NilMap or a map id
    maps,         \* the registry maps made so far: map id -> (key -> instance)
    instances,    \* the number of EventDispatcher instances made by NewDispatcher
    got,          \* the <<k, instance>> pairs GetDispatcher has returned
    gets,         \* the number of GetDispatcher calls made
    events        \* the ParamsEvent values in memory: address -> fields

vars == <<listeners, arrays, rw, pc, frame, calls, pre, ret,
          dispatchers, maps, instances, got, gets, events>>

dvars == <<listeners, arrays, rw, calls, pre>>
rvars == <<dispatchers, maps, instances, got, gets>>

----------------------------------------------------------------------------
(* Bounds of the model *)

\* the largest number of listeners registered at one time, over all names
MaxTotal == 3

\* the largest number of GetDispatcher calls in one behaviour
MaxGets == 4

\* On and Once are called by concurrent goroutines while fewer than this
\* many listeners are registered: with every operation (MaxConc), with the
\* operations that take the lock (MaxLocked)
MaxConc == 2
MaxLocked == 1

\* the largest number of listeners On has put on the name Off is called for
MaxSeq == 4

\* the largest number of events made with NewParamsEvent
MaxEvents == 2

----------------------------------------------------------------------------
(* Threads, strings, listeners *)

Threads == {"t1", "t2"}
NoThread == "none"

\* a string is a sequence of one-character strings
Sp == " "
StrA == <<"a">>
StrB == <<"b">>
StrAB == <<"a", " ", "b">>

\* the strings passed as names to On and Once
NameArgs == {StrA, StrAB, <<" ">>, <<>>}

\* the names of the events dispatched, and the names passed to Off, OffAll
\* and HasListeners
EventNames == {StrA, StrB, StrAB}

\* a Listener is a func value: a code pointer and the closure's environment
Fn(c, e) == [kind |-> "fn", code |-> c, env |-> e]
NilFn == [kind |-> "nil"]

\* the listeners the callers register with On and remove with Off
UserListeners == {Fn("f1", 1), Fn("f2", 1)}

\* the listeners the callers register with Once
OnceListeners == {Fn("f1", 1)}

\* DefaultDispatcherKey
DefaultDispatcherKey == <<"e", "d">>

\* the argument k of GetDispatcher: nil, or a string
NoKey == <<"nil">>
KeyArgs == {NoKey, DefaultDispatcherKey, <<"f">>}

----------------------------------------------------------------------------
(* Slices *)

NilSlice == [a |-> 0, len |-> 0]

Cap(arrs, h) == IF h.a = 0 THEN 0 ELSE Len(arrs[h.a])

\* the elements of slice h
Elems(arrs, h) == IF h.a = 0 THEN <<>> ELSE SubSeq(arrs[h.a], 1, h.len)

\* d.listeners[n]: the zero value (a nil slice) when the key is absent
Lookup(ls, n) == IF n \in DOMAIN ls THEN ls[n] ELSE NilSlice

\* the listener sequence of every present key
View(ls, arrs) == [n \in DOMAIN ls |-> Elems(arrs, ls[n])]

\* the listener sequence of name n, empty when the key is absent
SeqOf(n) == Elems(arrays, Lookup(listeners, n))

\* the number of listeners registered, over all names
RECURSIVE SumLen(_, _)
SumLen(ls, ks) ==
    IF ks = {} THEN 0
    ELSE LET k == CHOOSE x \in ks : TRUE
         IN  ls[k].len + SumLen(ls, ks \ {k})

Total == SumLen(listeners, DOMAIN listeners)

\* a fresh array id
NewId(arrs) == CHOOSE i \in 1..(Cardinality(DOMAIN arrs) + 1) : i \notin DOMAIN arrs

\* the largest length of a header that names array id
Reach(id, ls, fr) ==
    LET lens == {ls[n].len : n \in {k \in DOMAIN ls : ls[k].a = id}}
                \cup {fr[t].h.len : t \in {u \in Threads : fr[u].h.a = id}}
    IN  CHOOSE m \in lens : \A x \in lens : x <= m

\* the memory the program can still read: the arrays named by the map or by
\* a range loop in progress, each up to the longest header that names it.
\* An array no header names is garbage, and a slot beyond every header is
\* written by append before any header reaches it; the model drops the one
\* and keeps the other nil.
Live(arrs, ls, fr) ==
    LET used == {ls[n].a : n \in DOMAIN ls} \cup {fr[t].h.a : t \in Threads}
    IN  [id \in (DOMAIN arrs) \cap used |->
            [k \in 1..Len(arrs[id]) |->
                IF k <= Reach(id, ls, fr) THEN arrs[id][k] ELSE NilFn]]

\* the capacity append gives a slice of capacity c that is full
GrowCap(c) == IF c = 0 THEN 1 ELSE 2 * c

\* append(h, l): in place when the capacity allows, else into a new array.
\* The result is the pair <<arrays, header>>.
append(arrs, h, l) ==
    IF h.len < Cap(arrs, h)
    THEN <<[arrs EXCEPT ![h.a][h.len + 1] = l],
           [a |-> h.a, len |-> h.len + 1]>>
    ELSE LET id == NewId(arrs)
             nc == GrowCap(Cap(arrs, h))
             na == [i \in 1..nc |->
                       IF i <= h.len THEN arrs[h.a][i]
                       ELSE IF i = h.len + 1 THEN l ELSE NilFn]
         IN  <<[i \in (DOMAIN arrs) \cup {id} |->
                   IF i = id THEN na ELSE arrs[i]],
               [a |-> id, len |-> h.len + 1]>>

----------------------------------------------------------------------------
(* getNames *)

\* the least index of a space in s, 0 when there is none
IndexSp(s) ==
    IF \E i \in 1..Len(s) : s[i] = Sp
    THEN CHOOSE i \in 1..Len(s) : s[i] = Sp /\ \A j \in 1..(i - 1) : s[j] # Sp
    ELSE 0

\* strings.Split(s, " ")
RECURSIVE Split(_)
Split(s) ==
    LET i == IndexSp(s)
    IN  IF i = 0 THEN <<s>>
        ELSE <<SubSeq(s, 1, i - 1)>> \o Split(SubSeq(s, i + 1, Len(s)))

\* a getNames that keeps the empty pieces
getNamesAll(n) == Split(n)

\* getNames(n): the non-empty pieces of n, in order
getNames(n) == SelectSeq(Split(n), LAMBDA name : name # <<>>)

----------------------------------------------------------------------------
(* Listener identity and the Once wrapper *)

WrapperCode == "executeRemove.func1"

\* reflect.ValueOf(l).Pointer(): the code pointer of the func value
Pointer(l) == IF l.kind = "nil" THEN "nil" ELSE l.code

\* executeRemove(d, n, l): the closure nl, which captures n and l
executeRemove(n, l) == [kind |-> "once", code |-> WrapperCode, n |-> n, l |-> l]

----------------------------------------------------------------------------
(* The body of Off *)

\* append(listeners[:i], listeners[i+1:]...) for the (1-based) index i of
\* header h: the elements after i move one place down inside h's array
RemoveAt(arrs, h, i) ==
    [arrs EXCEPT ![h.a] =
        [k \in 1..Len(arrs[h.a]) |->
            IF k >= i /\ k < h.len THEN arrs[h.a][k + 1] ELSE arrs[h.a][k]]]

\* the range loop of Off over the header h read before the loop: each
\* element is read from the array as it is at that iteration, and a match
\* stores the shortened slice in the map. The result is <<arrays, map>>.
RECURSIVE offLoop(_, _, _, _, _, _)
offLoop(arrs, ls, n, h, p, i) ==
    IF i > h.len THEN <<arrs, ls>>
    ELSE IF Pointer(arrs[h.a][i]) = p
         THEN offLoop(RemoveAt(arrs, h, i),
                      [ls EXCEPT ![n] = [a |-> h.a, len |-> h.len - 1]],
                      n, h, p, i + 1)
         ELSE offLoop(arrs, ls, n, h, p, i + 1)

\* an Off that shortens the slice and does not store it in the map
offNotStored(arrs, ls, n, l) ==
    <<offLoop(arrs, ls, n, Lookup(ls, n), Pointer(l), 1)[1], ls>>

\* Off(n, l) between Lock and Unlock
off(arrs, ls, n, l) == offLoop(arrs, ls, n, Lookup(ls, n), Pointer(l), 1)

\* an OffAll that empties the slice and keeps the key
offAllKeepKey(ls, n) ==
    IF n \in DOMAIN ls THEN [ls EXCEPT ![n] = [a |-> ls[n].a, len |-> 0]] ELSE ls

\* OffAll(n) between Lock and Unlock
offAll(ls, n) ==
    IF n \in DOMAIN ls THEN [k \in (DOMAIN ls) \ {n} |-> ls[k]] ELSE ls

\* on(d, n, l) between Lock and Unlock. The result is <<arrays, map>>.
on(arrs, ls, n, l) ==
    LET r == append(arrs, Lookup(ls, n), l)
    IN  <<r[1], [k \in (DOMAIN ls) \cup {n} |-> IF k = n THEN r[2] ELSE ls[k]]>>

\* a HasListeners that reports whether the key is present
HasListenersKey(ls, n) == n \in DOMAIN ls

\* HasListeners(n)
HasListeners(ls, n) ==
    IF n \notin DOMAIN ls THEN FALSE ELSE ls[n].len # 0

----------------------------------------------------------------------------
(* ParamsEvent *)

\* a nil Event; an event is named by its address, <<goroutine, number>>
NoEvent == <<>>

NoEvents == [i \in {} |-> <<>>]

\* make(map[string]interface{})
NoParams == [k \in {} |-> <<>>]

\* NewParamsEvent(n): the fields of the new ParamsEvent
NewParamsEvent(n) ==
    [name |-> n, isPropagationStopped |-> FALSE, params |-> NoParams]

\* the address of a new ParamsEvent made by goroutine t: the first unused
\* place of the memory the allocator keeps for t
NewEventId(evs, t) ==
    <<t, CHOOSE i \in 1..(Cardinality(DOMAIN evs) + 1) :
             <<t, i>> \notin DOMAIN evs>>

\* the methods of *ParamsEvent, on the fields ev of the receiver
Name(ev) == ev.name

IsPropagationStopped(ev) == ev.isPropagationStopped

StopPropagation(ev) == [ev EXCEPT !.isPropagationStopped = TRUE]

\* event.params[k] = v
SetParam(ev, k, v) ==
    [ev EXCEPT !.params = [x \in (DOMAIN ev.params) \cup {k} |->
                              IF x = k THEN v ELSE ev.params[x]]]

HasParam(ev, k) == k \in DOMAIN ev.params

\* a RemoveParam that empties the map
RemoveParamAll(ev, k) ==
    IF HasParam(ev, k) THEN [ev EXCEPT !.params = NoParams] ELSE ev

\* if event.HasParam(k) { delete(event.params, k) }
RemoveParam(ev, k) ==
    IF HasParam(ev, k)
    THEN [ev EXCEPT !.params = [x \in (DOMAIN ev.params) \ {k} |->
                                   ev.params[x]]]
    ELSE ev

\* GetParam(k): the pair (value, ok); ("", false) for an absent key
GetParam(ev, k) ==
    IF k \in DOMAIN ev.params THEN <<ev.params[k], TRUE>> ELSE <<<<>>, FALSE>>

----------------------------------------------------------------------------
(* What the listeners do *)

\* a listener that calls e.StopPropagation()
Stopper == Fn("stop", 1)

\* listeners that call the dispatcher that is dispatching to them: d.Off
\* of the event's name and the listener itself, d.On of the event's name and
\* another listener, d.OffAll of the event's name
OffSelf == Fn("offSelf", 1)
OnMore == Fn("onMore", 1)
OffAllSelf == Fn("offAll", 1)

\* the func that runs when listener v is called: a Once wrapper calls the
\* listener it wraps first
Inner(v) == IF v.kind = "once" THEN v.l ELSE v

Stops(v) == Inner(v) = Stopper

Reenters(v) == Inner(v) \in {OffSelf, OnMore, OffAllSelf}

----------------------------------------------------------------------------
(* The state after construction *)

NilMap == 0
NilDispatcher == 0

IdleFrame ==
    [op |-> "none", n |-> <<>>, l |-> NilFn, names |-> <<>>, key |-> <<>>,
     nl |-> NilFn, h |-> NilSlice, i |-> 0, next |-> "idle", k |-> NoKey,
     back |-> "done", e |-> NoEvent, saw |-> <<>>, v |-> <<>>,
     result |-> NoEvent]

NoView == [n \in {} |-> <<>>]

\* NewDispatcher(): an empty map and an unlocked RWMutex; no registry yet
Init ==
    /\ listeners = [n \in {} |-> NilSlice]
    /\ arrays = [i \in {} |-> <<>>]
    /\ rw = [r |-> 0, w |-> NoThread]
    /\ pc = [t \in Threads |-> "idle"]
    /\ frame = [t \in Threads |-> IdleFrame]
    /\ calls = [t \in Threads |-> <<>>]
    /\ pre = [t \in Threads |-> NoView]
    /\ ret = [t \in Threads |-> "none"]
    /\ dispatchers = NilMap
    /\ maps = [i \in {} |-> <<>>]
    /\ instances = 0
    /\ got = {}
    /\ gets = 0
    /\ events = NoEvents

----------------------------------------------------------------------------
(* sync.RWMutex *)

\* Lock, first half: take the writers' mutex and announce the writer, which
\* holds back every later RLock
LockAnnounce(t) ==
    /\ pc[t] = "Lock"
    /\ rw.w = NoThread
    /\ rw' = [rw EXCEPT !.w = t]
    /\ pc' = [pc EXCEPT ![t] = "LockWait"]
    /\ UNCHANGED <<listeners, arrays, frame, calls, pre, ret, rvars, events>>

\* Lock, second half: wait until the readers have left
LockAcquire(t) ==
    /\ pc[t] = "LockWait"
    /\ rw.r = 0
    /\ pc' = [pc EXCEPT ![t] = frame[t].next]
    /\ UNCHANGED <<listeners, arrays, rw, frame, calls, pre, ret, rvars, events>>

\* RLock: blocks while a writer holds or waits for the lock
RLock(t) ==
    /\ pc[t] = "RLock"
    /\ rw.w = NoThread
    /\ rw' = [rw EXCEPT !.r = rw.r + 1]
    /\ pc' = [pc EXCEPT ![t] = frame[t].next]
    /\ UNCHANGED <<listeners, arrays, frame, calls, pre, ret, rvars, events>>

\* Unlock
Unlocked == [rw EXCEPT !.w = NoThread]

\* an RUnlock that leaves the reader count as it is
RUnlockedKept == rw

\* RUnlock: one reader fewer. With no reader holding the lock the runtime
\* ends the process: "fatal error: sync: RUnlock of unlocked RWMutex".
RUnlocked == IF rw.r = 0 THEN rw ELSE [rw EXCEPT !.r = rw.r - 1]

\* the process has ended: no goroutine runs any more
Fatal == [t \in Threads |-> "fatal"]

----------------------------------------------------------------------------
(* On and Once *)

\* the for loop of On and of Once over names: the next iteration's call of
\* on, or the end of the loop. On passes (name, l); Once passes
\* (n, executeRemove(d, name, l)).
Iterate(f) ==
    IF f.names = <<>> THEN f
    ELSE [f EXCEPT !.names = Tail(f.names),
                   !.key = IF f.op = "Once" THEN f.n ELSE Head(f.names),
                   !.nl = IF f.op = "Once"
                          THEN executeRemove(Head(f.names), f.l) ELSE f.l,
                   !.next = "on"]

IteratePc(f) == IF f.names = <<>> THEN f.back ELSE "Lock"

\* a call of On(n, l) or Once(n, l): names := getNames(n)
Register(t, op, n, l) ==
    /\ pc[t] = "idle"
    /\ Total + Len(getNames(n)) <= MaxTotal
    /\ LET f == [IdleFrame EXCEPT !.op = op, !.n = n, !.l = l,
                                  !.names = getNames(n)]
       IN  /\ frame' = [frame EXCEPT ![t] = Iterate(f)]
           /\ pc' = [pc EXCEPT ![t] = IteratePc(f)]
    /\ pre' = [pre EXCEPT ![t] = View(listeners, arrays)]
    /\ UNCHANGED <<listeners, arrays, rw, calls, ret, rvars, events>>

CallOn(t, n, l) == Register(t, "On", n, l)

CallOnce(t, n, l) == Register(t, "Once", n, l)

\* on(d, n, l) holding the lock: the append, the deferred Unlock, and the
\* caller's next iteration
OnBody(t) ==
    /\ pc[t] = "on"
    /\ LET r == on(arrays, listeners, frame[t].key, frame[t].nl)
       IN  /\ listeners' = r[2]
           /\ arrays' = Live(r[1], r[2], frame)
    /\ rw' = Unlocked
    /\ frame' = [frame EXCEPT ![t] = Iterate(frame[t])]
    /\ pc' = [pc EXCEPT ![t] = IteratePc(frame[t])]
    /\ UNCHANGED <<calls, pre, ret, rvars, events>>

----------------------------------------------------------------------------
(* Off, OffAll, HasListeners *)

CallOff(t, n, l) ==
    /\ pc[t] = "idle"
    /\ frame' = [frame EXCEPT ![t] =
                    [IdleFrame EXCEPT !.op = "Off", !.n = n, !.l = l,
                                      !.next = "Off"]]
    /\ pc' = [pc EXCEPT ![t] = "Lock"]
    /\ pre' = [pre EXCEPT ![t] = View(listeners, arrays)]
    /\ UNCHANGED <<listeners, arrays, rw, calls, ret, rvars, events>>

OffBody(t) ==
    /\ pc[t] = "Off"
    /\ LET r == off(arrays, listeners, frame[t].n, frame[t].l)
       IN  /\ arrays' = Live(r[1], r[2], frame)
           /\ listeners' = r[2]
    /\ rw' = Unlocked
    /\ pc' = [pc EXCEPT ![t] = frame[t].back]
    /\ UNCHANGED <<frame, calls, pre, ret, rvars, events>>

CallOffAll(t, n) ==
    /\ pc[t] = "idle"
    /\ frame' = [frame EXCEPT ![t] =
                    [IdleFrame EXCEPT !.op = "OffAll", !.n = n,
                                      !.next = "OffAll"]]
    /\ pc' = [pc EXCEPT ![t] = "Lock"]
    /\ pre' = [pre EXCEPT ![t] = View(listeners, arrays)]
    /\ UNCHANGED <<listeners, arrays, rw, calls, ret, rvars, events>>

OffAllBody(t) ==
    /\ pc[t] = "OffAll"
    /\ listeners' = offAll(listeners, frame[t].n)
    /\ arrays' = Live(arrays, listeners', frame)
    /\ rw' = Unlocked
    /\ pc' = [pc EXCEPT ![t] = frame[t].back]
    /\ UNCHANGED <<frame, calls, pre, ret, rvars, events>>

\* a call of HasListeners(n): no lock is taken
CallHasListeners(t, n) ==
    /\ pc[t] = "idle"
    /\ frame' = [frame EXCEPT ![t] =
                    [IdleFrame EXCEPT !.op = "HasListeners", !.n = n]]
    /\ pc' = [pc EXCEPT ![t] = "HasListeners"]
    /\ pre' = [pre EXCEPT ![t] = View(listeners, arrays)]
    /\ UNCHANGED <<listeners, arrays, rw, calls, ret, rvars, events>>

\* listeners, ok := d.listeners[n], and the result
HasListenersRead(t) ==
    /\ pc[t] = "HasListeners"
    /\ ret' = [ret EXCEPT ![t] = HasListeners(listeners, frame[t].n)]
    /\ pc' = [pc EXCEPT ![t] = "done"]
    /\ UNCHANGED <<listeners, arrays, rw, frame, calls, pre, rvars, events>>

----------------------------------------------------------------------------
(* Dispatch *)

\* Dispatch(NewParamsEvent(n)): the new event e, RLock, the deferred
\* RUnlock, then dispatch
CallDispatch(t, n) ==
    /\ pc[t] = "idle"
    /\ LET id == NewEventId(events, t)
       IN  /\ events' = [i \in (DOMAIN events) \cup {id} |->
                            IF i = id THEN NewParamsEvent(n) ELSE events[i]]
           /\ frame' = [frame EXCEPT ![t] =
                           [IdleFrame EXCEPT !.op = "Dispatch", !.n = n,
                                             !.e = id, !.next = "range"]]
    /\ pc' = [pc EXCEPT ![t] = "RLock"]
    /\ calls' = [calls EXCEPT ![t] = <<>>]
    /\ pre' = [pre EXCEPT ![t] = View(listeners, arrays)]
    /\ UNCHANGED <<listeners, arrays, rw, ret, rvars>>

\* dispatch: the range expression d.listeners[e.Name()] is evaluated once,
\* before the first iteration
DispatchRange(t) ==
    /\ pc[t] = "range"
    /\ frame' = [frame EXCEPT
                    ![t].h = Lookup(listeners, Name(events[frame[t].e])),
                    ![t].i = 1]
    /\ pre' = [pre EXCEPT ![t] = View(listeners, arrays)]
    /\ pc' = [pc EXCEPT ![t] = "loop"]
    /\ UNCHANGED <<listeners, arrays, rw, calls, ret, rvars, events>>

\* a loop that walks the slice from its end
LoopElemBackwards(arrs, h, i) == arrs[h.a][h.len - i + 1]

\* the element the range loop reads at index i of header h
LoopElem(arrs, h, i) == arrs[h.a][i]

\* where control is when listener v has returned: in the loop, or, in a
\* Once wrapper, at its RUnlock
AfterCall(v) == IF v.kind = "once" THEN "wrapperRUnlock" ELSE "loop"

\* the frame of the loop when it has called listener v with the event: v
\* has seen the event's flag. A listener that calls Off, On or OffAll of
\* the dispatcher has passed it the event's name.
Called(f, v) ==
    LET g == [f EXCEPT !.nl = v, !.i = f.i + 1, !.back = AfterCall(v),
                       !.saw = Append(f.saw,
                                      IsPropagationStopped(events[f.e]))]
    IN  IF Inner(v) = OffSelf
            THEN [g EXCEPT !.n = Name(events[f.e]), !.l = Inner(v),
                           !.next = "Off"]
        ELSE IF Inner(v) = OffAllSelf
            THEN [g EXCEPT !.n = Name(events[f.e]), !.next = "OffAll"]
        ELSE IF Inner(v) = OnMore
            THEN Iterate([g EXCEPT !.l = Fn("f2", 1),
                                   !.names = getNames(Name(events[f.e]))])
        ELSE g

\* a loop that ends when the propagation of the event has been stopped
LoopEndsStopped(f) ==
    f.i > f.h.len \/ IsPropagationStopped(events[f.e])

\* the range loop of dispatch has no element left
LoopEnds(f) == f.i > f.h.len

\* one iteration of the loop of dispatch: l(e), up to the return of the
\* listener or, in a Once wrapper, of the wrapped listener, or up to the
\* listener's call of the dispatcher
DispatchLoop(t) ==
    /\ pc[t] = "loop"
    /\ ~LoopEnds(frame[t])
    /\ LET v == LoopElem(arrays, frame[t].h, frame[t].i)
       IN  /\ calls' = [calls EXCEPT ![t] = Append(calls[t], v)]
           /\ frame' = [frame EXCEPT ![t] = Called(frame[t], v)]
           /\ events' = IF Stops(v)
                         THEN [events EXCEPT ![frame[t].e] =
                                  StopPropagation(events[frame[t].e])]
                         ELSE events
           /\ pc' = [pc EXCEPT ![t] = IF Reenters(v) THEN "Lock"
                                      ELSE AfterCall(v)]
    /\ UNCHANGED <<listeners, arrays, rw, pre, ret, rvars>>

\* the Once wrapper after l(e): d.RWMutex.RUnlock(), then the call of Off
WrapperRUnlock(t) ==
    /\ pc[t] = "wrapperRUnlock"
    /\ rw' = RUnlocked
    /\ frame' = [frame EXCEPT ![t].next = "wrapperOff"]
    /\ pc' = IF rw.r = 0 THEN Fatal ELSE [pc EXCEPT ![t] = "Lock"]
    /\ UNCHANGED <<listeners, arrays, calls, pre, ret, rvars, events>>

\* a Once wrapper that does not take the read lock again after Off
WrapperOffNoRLock(t) ==
    /\ pc[t] = "wrapperOff"
    /\ LET r == off(arrays, listeners, frame[t].nl.n, frame[t].nl)
       IN  /\ arrays' = Live(r[1], r[2], frame)
           /\ listeners' = r[2]
    /\ rw' = Unlocked
    /\ frame' = [frame EXCEPT ![t].next = "loop"]
    /\ pc' = [pc EXCEPT ![t] = "loop"]
    /\ UNCHANGED <<calls, pre, ret, rvars, events>>

\* the Once wrapper: d.Off(n, nl) holding the lock, then the call of RLock
WrapperOff(t) ==
    /\ pc[t] = "wrapperOff"
    /\ LET r == off(arrays, listeners, frame[t].nl.n, frame[t].nl)
       IN  /\ arrays' = Live(r[1], r[2], frame)
           /\ listeners' = r[2]
    /\ rw' = Unlocked
    /\ frame' = [frame EXCEPT ![t].next = "loop"]
    /\ pc' = [pc EXCEPT ![t] = "RLock"]
    /\ UNCHANGED <<calls, pre, ret, rvars, events>>

\* return e: the event dispatch, and so Dispatch, returns
Dispatched(f) == f.e

\* the end of the loop: dispatch returns e, the deferred RUnlock runs
DispatchReturn(t) ==
    /\ pc[t] = "loop"
    /\ LoopEnds(frame[t])
    /\ rw' = RUnlocked
    /\ frame' = [frame EXCEPT ![t].result = Dispatched(frame[t])]
    /\ pc' = IF rw.r = 0 THEN Fatal ELSE [pc EXCEPT ![t] = "done"]
    /\ UNCHANGED <<listeners, arrays, calls, pre, ret, rvars, events>>

\* the caller takes the result; the locals of the call are gone, and so is
\* the event that was made for a Dispatch
Return(t) ==
    /\ pc[t] = "done"
    /\ pc' = [pc EXCEPT ![t] = "idle"]
    /\ frame' = [frame EXCEPT ![t] = IdleFrame]
    /\ calls' = [calls EXCEPT ![t] = <<>>]
    /\ pre' = [pre EXCEPT ![t] = NoView]
    /\ ret' = [ret EXCEPT ![t] = "none"]
    /\ arrays' = Live(arrays, listeners, frame')
    /\ events' = IF frame[t].op = "Dispatch"
                  THEN [i \in (DOMAIN events) \ {frame[t].e} |-> events[i]]
                  ELSE events
    /\ UNCHANGED <<listeners, rw, rvars>>

----------------------------------------------------------------------------
(* One goroutine using one dispatcher *)

Main == "t1"

Next ==
    \/ \E n \in NameArgs, l \in UserListeners : CallOn(Main, n, l)
    \/ \E n \in NameArgs, l \in OnceListeners : CallOnce(Main, n, l)
    \/ \E n \in EventNames, l \in UserListeners : CallOff(Main, n, l)
    \/ \E n \in EventNames : CallOffAll(Main, n)
    \/ \E n \in EventNames : CallHasListeners(Main, n)
    \/ HasListenersRead(Main)
    \/ \E n \in EventNames : CallDispatch(Main, n)
    \/ LockAnnounce(Main)
    \/ LockAcquire(Main)
    \/ RLock(Main)
    \/ OnBody(Main)
    \/ OffBody(Main)
    \/ OffAllBody(Main)
    \/ DispatchRange(Main)
    \/ DispatchLoop(Main)
    \/ WrapperRUnlock(Main)
    \/ WrapperOff(Main)
    \/ DispatchReturn(Main)
    \/ Return(Main)

Spec == Init /\ [][Next]_vars

----------------------------------------------------------------------------
(* The registry: GetDispatcher and getDispatcher *)

\* a GetDispatcher that keeps nil apart from DefaultDispatcherKey
KeyOfArg(k) == k

\* the key GetDispatcher passes to getDispatcher for argument k
KeyOf(k) == IF k = NoKey THEN DefaultDispatcherKey ELSE k

\* dispatchers[key] for the map the package variable names now: the zero
\* value (a nil pointer) when the key is absent
MapLookup(ms, m, key) ==
    IF m # NilMap /\ key \in DOMAIN ms[m] THEN ms[m][key] ELSE NilDispatcher

MapHas(ms, m, key) == m # NilMap /\ key \in DOMAIN ms[m]

\* GetDispatcher(k): the test dispatchers == nil
CallGetDispatcher(t, k) ==
    /\ pc[t] = "idle"
    /\ gets < MaxGets
    /\ frame' = [frame EXCEPT ![t] =
                    [IdleFrame EXCEPT !.op = "GetDispatcher", !.k = k,
                                      !.key = KeyOf(k)]]
    /\ pc' = [pc EXCEPT ![t] = IF dispatchers = NilMap THEN "make" ELSE "lookup"]
    /\ gets' = gets + 1
    /\ UNCHANGED <<dvars, ret, dispatchers, maps, instances, got, events>>

\* dispatchers = make(map[string]*EventDispatcher)
MakeMap(t) ==
    /\ pc[t] = "make"
    /\ LET m == Cardinality(DOMAIN maps) + 1
       IN  /\ maps' = [i \in (DOMAIN maps) \cup {m} |->
                          IF i = m THEN [x \in {} |-> NilDispatcher] ELSE maps[i]]
           /\ dispatchers' = m
    /\ pc' = [pc EXCEPT ![t] = "lookup"]
    /\ UNCHANGED <<dvars, frame, ret, instances, got, gets, events>>

\* the value getDispatcher returns to the caller of GetDispatcher
Returned(t, d) ==
    /\ ret' = [ret EXCEPT ![t] = d]
    /\ got' = got \cup {<<frame[t].k, d>>}
    /\ pc' = [pc EXCEPT ![t] = "done"]

\* getDispatcher: d, ok := dispatchers[k], and return d when ok
GetFound(t) ==
    /\ pc[t] = "lookup"
    /\ MapHas(maps, dispatchers, frame[t].key)
    /\ Returned(t, MapLookup(maps, dispatchers, frame[t].key))
    /\ UNCHANGED <<dvars, frame, dispatchers, maps, instances, gets, events>>

GetMissing(t) ==
    /\ pc[t] = "lookup"
    /\ ~MapHas(maps, dispatchers, frame[t].key)
    /\ pc' = [pc EXCEPT ![t] = "store"]
    /\ UNCHANGED <<dvars, frame, ret, rvars, events>>

\* dispatchers[k] = NewDispatcher()
StoreNew(t) ==
    /\ pc[t] = "store"
    /\ dispatchers # NilMap
    /\ instances' = instances + 1
    /\ maps' = [maps EXCEPT ![dispatchers] =
                   [x \in (DOMAIN maps[dispatchers]) \cup {frame[t].key} |->
                       IF x = frame[t].key THEN instances + 1
                       ELSE maps[dispatchers][x]]]
    /\ pc' = [pc EXCEPT ![t] = "reload"]
    /\ UNCHANGED <<dvars, frame, ret, dispatchers, got, gets, events>>

\* d = dispatchers[k]; return d
Reload(t) ==
    /\ pc[t] = "reload"
    /\ Returned(t, MapLookup(maps, dispatchers, frame[t].key))
    /\ UNCHANGED <<dvars, frame, dispatchers, maps, instances, gets, events>>

\* one goroutine using the registry
NextRegistry ==
    \/ \E k \in KeyArgs : CallGetDispatcher(Main, k)
    \/ MakeMap(Main)
    \/ GetFound(Main)
    \/ GetMissing(Main)
    \/ StoreNew(Main)
    \/ Reload(Main)
    \/ Return(Main)

SpecRegistry == Init /\ [][NextRegistry]_vars

----------------------------------------------------------------------------
(* Goroutines using the registry concurrently *)

\* the statements of getDispatcher that read or write the map
MapAccess == {"lookup", "store", "reload"}

\* Nothing orders the goroutines' accesses to the map. A write that overlaps
\* another goroutine's access may go through (StoreNew) or be caught by the
\* runtime, which ends the process: "fatal error: concurrent map writes".
MapFatal(t) ==
    /\ pc[t] = "store"
    /\ \E u \in Threads \ {t} : pc[u] \in MapAccess
    /\ pc' = Fatal
    /\ UNCHANGED <<dvars, frame, ret, rvars, events>>

NextRegistryConc ==
    \E t \in Threads :
        \/ \E k \in KeyArgs : CallGetDispatcher(t, k)
        \/ MakeMap(t)
        \/ GetFound(t)
        \/ GetMissing(t)
        \/ StoreNew(t)
        \/ MapFatal(t)
        \/ Reload(t)
        \/ Return(t)

SpecRegistryConc == Init /\ [][NextRegistryConc]_vars

----------------------------------------------------------------------------
(* Goroutines using one dispatcher concurrently *)

\* the statements that write the map d.listeners; each is reached holding
\* the lock
MapWrite == {"on", "Off", "OffAll", "wrapperOff"}

\* the statements that read the map d.listeners: the one of HasListeners,
\* reached with no lock, and the range expression of dispatch, reached
\* holding the read lock
MapRead == {"HasListeners", "range"}

\* The read of HasListeners is ordered with no write. A read that overlaps
\* another goroutine's write may go through (HasListenersRead) or be caught
\* by the runtime, which ends the process: "fatal error: concurrent map read
\* and map write".
ReadFatal(t) ==
    /\ pc[t] = "HasListeners"
    /\ \E u \in Threads \ {t} : pc[u] \in MapWrite
    /\ pc' = Fatal
    /\ UNCHANGED <<dvars, frame, ret, rvars, events>>

ConcNames == {StrA}

ConcListeners == {Fn("f2", 1)}

NextConc ==
    \E t \in Threads :
        \/ \E n \in ConcNames, l \in ConcListeners :
               Total < MaxConc /\ CallOn(t, n, l)
        \/ \E n \in ConcNames, l \in OnceListeners :
               Total < MaxConc /\ CallOnce(t, n, l)
        \/ \E n \in ConcNames, l \in ConcListeners : CallOff(t, n, l)
        \/ \E n \in ConcNames : CallOffAll(t, n)
        \/ \E n \in ConcNames : CallHasListeners(t, n)
        \/ \E n \in ConcNames : CallDispatch(t, n)
        \/ LockAnnounce(t)
        \/ LockAcquire(t)
        \/ RLock(t)
        \/ OnBody(t)
        \/ OffBody(t)
        \/ OffAllBody(t)
        \/ HasListenersRead(t)
        \/ ReadFatal(t)
        \/ DispatchRange(t)
        \/ DispatchLoop(t)
        \/ WrapperRUnlock(t)
        \/ WrapperOff(t)
        \/ DispatchReturn(t)
        \/ Return(t)

SpecConc == Init /\ [][NextConc]_vars

----------------------------------------------------------------------------
(* Goroutines calling the operations that take the lock: Dispatch, On,
   Once, Off and OffAll *)

NextLocked ==
    \E t \in Threads :
        \/ \E n \in ConcNames, l \in ConcListeners :
               Total < MaxLocked /\ CallOn(t, n, l)
        \/ \E n \in ConcNames, l \in OnceListeners :
               Total < MaxLocked /\ CallOnce(t, n, l)
        \/ \E n \in ConcNames, l \in ConcListeners : CallOff(t, n, l)
        \/ \E n \in ConcNames : CallOffAll(t, n)
        \/ \E n \in ConcNames : CallDispatch(t, n)
        \/ LockAnnounce(t)
        \/ LockAcquire(t)
        \/ RLock(t)
        \/ OnBody(t)
        \/ OffBody(t)
        \/ OffAllBody(t)
        \/ DispatchRange(t)
        \/ DispatchLoop(t)
        \/ WrapperRUnlock(t)
        \/ WrapperOff(t)
        \/ DispatchReturn(t)
        \/ Return(t)

SpecLocked == Init /\ [][NextLocked]_vars

\* a goroutine that can take its next statement takes it
Runs(t) ==
    \/ LockAcquire(t)
    \/ OnBody(t)
    \/ OffBody(t)
    \/ OffAllBody(t)
    \/ DispatchRange(t)
    \/ DispatchLoop(t)
    \/ WrapperRUnlock(t)
    \/ WrapperOff(t)
    \/ DispatchReturn(t)
    \/ Return(t)

\* The scheduler runs every runnable goroutine. A goroutine waiting in Lock
\* for the writers' mutex gets it in the end (sync.Mutex hands the mutex to
\* a waiter that has waited long), and a goroutine waiting in RLock behind a
\* writer is let in when that writer unlocks, before the next writer.
Fairness ==
    \A t \in Threads :
        /\ WF_vars(Runs(t))
        /\ SF_vars(LockAnnounce(t))
        /\ SF_vars(RLock(t))

SpecFair == SpecLocked /\ Fairness

----------------------------------------------------------------------------
(* Off on the sequences that calls of On build *)

\* the listeners registered and removed: two closures of one func literal
\* and a closure of another
OffListeners == {Fn("f1", 1), Fn("f1", 2), Fn("f2", 1)}

\* the sequences of at most n elements of set S
SeqsUpTo(S, n) == UNION {[1..k -> S] : k \in 0..n}

\* the capacity of a slice that k appends to a nil slice have built
RECURSIVE BuiltCap(_)
BuiltCap(k) ==
    IF k = 0 THEN 0
    ELSE IF k <= BuiltCap(k - 1) THEN BuiltCap(k - 1)
         ELSE GrowCap(BuiltCap(k - 1))

\* the array that holds sequence s after Len(s) calls of on
BuiltArray(s) ==
    [i \in 1..BuiltCap(Len(s)) |-> IF i <= Len(s) THEN s[i] ELSE NilFn]

\* a dispatcher after the calls of On and Once that put the listeners of
\* sequence s, one by one, on the name "a", and On("b", f2)
InitSeq(s) ==
    /\ listeners = [n \in {StrA, StrB} |->
                       IF n = StrA THEN [a |-> 1, len |-> Len(s)]
                       ELSE [a |-> 2, len |-> 1]]
    /\ arrays = [i \in {1, 2} |->
                    IF i = 1 THEN BuiltArray(s)
                    ELSE BuiltArray(<<Fn("f2", 1)>>)]
    /\ rw = [r |-> 0, w |-> NoThread]
    /\ pc = [t \in Threads |-> "idle"]
    /\ frame = [t \in Threads |-> IdleFrame]
    /\ calls = [t \in Threads |-> <<>>]
    /\ pre = [t \in Threads |-> NoView]
    /\ ret = [t \in Threads |-> "none"]
    /\ dispatchers = NilMap
    /\ maps = [i \in {} |-> <<>>]
    /\ instances = 0
    /\ got = {}
    /\ gets = 0
    /\ events = NoEvents

\* every sequence of one to MaxSeq listeners registered with On
InitOff == \E s \in SeqsUpTo(OffListeners, MaxSeq) \ {<<>>} : InitSeq(s)

NextOff ==
    \/ \E l \in OffListeners : CallOff(Main, StrA, l)
    \/ CallDispatch(Main, StrA)
    \/ LockAnnounce(Main)
    \/ LockAcquire(Main)
    \/ RLock(Main)
    \/ OffBody(Main)
    \/ DispatchRange(Main)
    \/ DispatchLoop(Main)
    \/ DispatchReturn(Main)
    \/ Return(Main)

SpecOff == InitOff /\ [][NextOff]_vars

----------------------------------------------------------------------------
(* Dispatch to listeners that stop the propagation *)

PropagationNames == {StrA, StrB}

PropagationListeners == {Fn("f2", 1), Stopper}

NextPropagation ==
    \/ \E n \in PropagationNames, l \in PropagationListeners :
           CallOn(Main, n, l)
    \/ \E n \in PropagationNames : CallOffAll(Main, n)
    \/ \E n \in PropagationNames : CallDispatch(Main, n)
    \/ LockAnnounce(Main)
    \/ LockAcquire(Main)
    \/ RLock(Main)
    \/ OnBody(Main)
    \/ OffAllBody(Main)
    \/ DispatchRange(Main)
    \/ DispatchLoop(Main)
    \/ DispatchReturn(Main)
    \/ Return(Main)

SpecPropagation == Init /\ [][NextPropagation]_vars

----------------------------------------------------------------------------
(* One goroutine using events *)

\* the keys and the values of the parameters; "" is a value like any other
ParamKeys == {<<"k">>, <<"j">>}
ParamValues == {<<>>, <<"p">>}

\* a method of an event, or NewParamsEvent, has returned r to goroutine t;
\* pre keeps the events as they were when it was called
EventReturned(t, op, id, k, v, r) ==
    /\ frame' = [frame EXCEPT ![t] =
                    [IdleFrame EXCEPT !.op = op, !.e = id, !.key = k, !.v = v]]
    /\ ret' = [ret EXCEPT ![t] = r]
    /\ pre' = [pre EXCEPT ![t] = events]
    /\ pc' = [pc EXCEPT ![t] = "done"]
    /\ UNCHANGED <<listeners, arrays, rw, calls, rvars>>

\* e := NewParamsEvent(n)
CallNewParamsEvent(t, n) ==
    /\ pc[t] = "idle"
    /\ Cardinality(DOMAIN events) < MaxEvents
    /\ LET id == NewEventId(events, t)
       IN  /\ events' = [i \in (DOMAIN events) \cup {id} |->
                            IF i = id THEN NewParamsEvent(n) ELSE events[i]]
           /\ EventReturned(t, "NewParamsEvent", id, <<>>, <<>>, id)

\* e.SetParam(k, v), which returns e
CallSetParam(t, id, k, v) ==
    /\ pc[t] = "idle"
    /\ events' = [events EXCEPT ![id] = SetParam(events[id], k, v)]
    /\ EventReturned(t, "SetParam", id, k, v, id)

\* e.RemoveParam(k), which returns e
CallRemoveParam(t, id, k) ==
    /\ pc[t] = "idle"
    /\ events' = [events EXCEPT ![id] = RemoveParam(events[id], k)]
    /\ EventReturned(t, "RemoveParam", id, k, <<>>, id)

CallHasParam(t, id, k) ==
    /\ pc[t] = "idle"
    /\ events' = events
    /\ EventReturned(t, "HasParam", id, k, <<>>, HasParam(events[id], k))

CallGetParam(t, id, k) ==
    /\ pc[t] = "idle"
    /\ events' = events
    /\ EventReturned(t, "GetParam", id, k, <<>>, GetParam(events[id], k))

CallStopPropagation(t, id) ==
    /\ pc[t] = "idle"
    /\ events' = [events EXCEPT ![id] = StopPropagation(events[id])]
    /\ EventReturned(t, "StopPropagation", id, <<>>, <<>>, "none")

CallIsPropagationStopped(t, id) ==
    /\ pc[t] = "idle"
    /\ events' = events
    /\ EventReturned(t, "IsPropagationStopped", id, <<>>, <<>>,
                     IsPropagationStopped(events[id]))

NextEvent ==
    \/ CallNewParamsEvent(Main, StrA)
    \/ \E id \in DOMAIN events, k \in ParamKeys, v \in ParamValues :
           CallSetParam(Main, id, k, v)
    \/ \E id \in DOMAIN events, k \in ParamKeys : CallRemoveParam(Main, id, k)
    \/ \E id \in DOMAIN events, k \in ParamKeys : CallHasParam(Main, id, k)
    \/ \E id \in DOMAIN events, k \in ParamKeys : CallGetParam(Main, id, k)
    \/ \E id \in DOMAIN events : CallStopPropagation(Main, id)
    \/ \E id \in DOMAIN events : CallIsPropagationStopped(Main, id)
    \/ Return(Main)

SpecEvent == Init /\ [][NextEvent]_vars

----------------------------------------------------------------------------
(* Goroutines dispatching to one Once registration *)

\* the wrapper that Once("a", f1) registers
OnceA == executeRemove(StrA, Fn("f1", 1))

\* Once("a", f1) called once, before, after or without On("a", f2)
OnceSeqs == {<<OnceA>>, <<OnceA, Fn("f2", 1)>>, <<Fn("f2", 1), OnceA>>}

InitOnce == \E s \in OnceSeqs : InitSeq(s)

NextOnce ==
    \E t \in Threads :
        \/ CallDispatch(t, StrA)
        \/ LockAnnounce(t)
        \/ LockAcquire(t)
        \/ RLock(t)
        \/ DispatchRange(t)
        \/ DispatchLoop(t)
        \/ WrapperRUnlock(t)
        \/ WrapperOff(t)
        \/ DispatchReturn(t)
        \/ Return(t)

SpecOnce == InitOnce /\ [][NextOnce]_vars

----------------------------------------------------------------------------
(* One goroutine dispatching to listeners that call the dispatcher *)

ReentrantListeners == {Fn("f2", 1), OffSelf, OnMore, OffAllSelf}

NextReentrant ==
    \/ \E l \in ReentrantListeners : CallOn(Main, StrA, l)
    \/ \E l \in ReentrantListeners : CallOff(Main, StrA, l)
    \/ CallOffAll(Main, StrA)
    \/ CallDispatch(Main, StrA)
    \/ LockAnnounce(Main)
    \/ LockAcquire(Main)
    \/ RLock(Main)
    \/ OnBody(Main)
    \/ OffBody(Main)
    \/ OffAllBody(Main)
    \/ DispatchRange(Main)
    \/ DispatchLoop(Main)
    \/ DispatchReturn(Main)
    \/ Return(Main)

\* the one goroutine runs whenever it can
SpecReentrant == Init /\ [][NextReentrant]_vars /\ Fairness

----------------------------------------------------------------------------
(* Vocabulary of the properties *)

\* thread t's call of op has finished and its result is not yet taken
Done(t, op) == pc[t] = "done" /\ frame[t].op = op

\* the listener sequence of name n when t's call started (for Dispatch:
\* when its loop started)
PreSeq(t, n) == IF n \in DOMAIN pre[t] THEN pre[t][n] ELSE <<>>

\* every listener of sequence s was registered with On
AllPersistent(s) == \A i \in 1..Len(s) : s[i].kind = "fn"

\* the number of times x occurs in sequence s
Count(s, x) == Cardinality({i \in 1..Len(s) : s[i] = x})

----------------------------------------------------------------------------
(* C1 *)

\* C1: a Dispatch of an event named n, on whose name only persistent
\* listeners are registered (k of them, k >= 0), has invoked, when it
\* returns, exactly those k listeners, each once, in their order in the
\* sequence; the number of invocations is k.
C1_DispatchPersistent ==
    \A t \in Threads :
        (Done(t, "Dispatch") /\ AllPersistent(PreSeq(t, frame[t].n)))
            => /\ calls[t] = PreSeq(t, frame[t].n)
               /\ Len(calls[t]) = Len(PreSeq(t, frame[t].n))

\* a Dispatch over three persistent listeners, not all the same, returned
C1_Witness ==
    /\ Done(Main, "Dispatch")
    /\ AllPersistent(PreSeq(Main, frame[Main].n))
    /\ Len(PreSeq(Main, frame[Main].n)) = 3
    /\ PreSeq(Main, frame[Main].n)[1] # PreSeq(Main, frame[Main].n)[3]
    /\ Len(calls[Main]) = 3

----------------------------------------------------------------------------
(* C2 *)

\* the sequence of n when t's call started held one listener only, the
\* wrapper Once(n, l) makes for some l
SoleOnce(t, n) ==
    /\ Len(PreSeq(t, n)) = 1
    /\ \E l \in OnceListeners : PreSeq(t, n)[1] = executeRemove(n, l)

\* C2: with Once(n, l) the only registration on the single name n,
\* HasListeners(n) is true when Once returns; the Dispatch of an event named
\* n that finds that one registration invokes the wrapper (and so l) once and
\* leaves HasListeners(n) false; and a Dispatch that finds the sequence of n
\* empty, as every further Dispatch does, invokes nothing.
C2_OnceRunsOnce ==
    \A t \in Threads :
        /\ (Done(t, "Once") /\ getNames(frame[t].n) = <<frame[t].n>>
                /\ PreSeq(t, frame[t].n) = <<>>)
              => /\ HasListeners(listeners, frame[t].n)
                 /\ SeqOf(frame[t].n) = <<executeRemove(frame[t].n, frame[t].l)>>
        /\ (Done(t, "Dispatch") /\ SoleOnce(t, frame[t].n))
              => /\ calls[t] = PreSeq(t, frame[t].n)
                 /\ ~HasListeners(listeners, frame[t].n)
                 /\ SeqOf(frame[t].n) = <<>>
        /\ (Done(t, "Dispatch") /\ PreSeq(t, frame[t].n) = <<>>)
              => /\ calls[t] = <<>>
                 /\ ~HasListeners(listeners, frame[t].n)

\* the Dispatch that found the one Once registration has returned
C2_Witness ==
    /\ Done(Main, "Dispatch")
    /\ SoleOnce(Main, frame[Main].n)
    /\ calls[Main] = <<executeRemove(StrA, Fn("f1", 1))>>
    /\ ~HasListeners(listeners, StrA)

----------------------------------------------------------------------------
(* C3 *)

\* C3 as claimed: a Dispatch has invoked, when it returns, every listener
\* that was in the sequence of its event's name when its loop started, once
\* each and in order, whatever mix of Once wrappers and persistent listeners
\* the sequence holds.
C3_DispatchEachOnce ==
    \A t \in Threads :
        Done(t, "Dispatch") => calls[t] = PreSeq(t, frame[t].n)

----------------------------------------------------------------------------
(* C4 *)

\* C4 as claimed: when Off(n, l) returns, the sequence of n holds no
\* occurrence of l.
C4_OffRemovesAll ==
    \A t \in Threads :
        Done(t, "Off") => Count(SeqOf(frame[t].n), frame[t].l) = 0

----------------------------------------------------------------------------
(* C5 *)

\* the set of the elements of sequence s
Range(s) == {s[i] : i \in 1..Len(s)}

\* C5 as claimed: when Once(names, l) returns, every individual name of
\* names has listeners, its sequence ending with the wrapper made for it,
\* and no key other than those names has been added to the map.
C5_OnceEachName ==
    \A t \in Threads :
        Done(t, "Once")
            => /\ \A name \in Range(getNames(frame[t].n)) :
                      /\ HasListeners(listeners, name)
                      /\ SeqOf(name)[Len(SeqOf(name))]
                             = executeRemove(name, frame[t].l)
               /\ (DOMAIN listeners) \ (DOMAIN pre[t])
                      \subseteq Range(getNames(frame[t].n))

----------------------------------------------------------------------------
(* C6 *)

\* C6: HasListeners(n) returns true exactly when the listener sequence of n
\* is not empty, whatever calls came before: false for an absent key and for
\* a present key with an empty sequence alike. When On(names, l) returns,
\* every name of names has listeners; when Off(n, l) returns, l having been
\* the only registrant on n, the key n is still present and HasListeners(n)
\* is false.
C6_HasListeners ==
    \A t \in Threads :
        /\ Done(t, "HasListeners")
              => /\ ret[t] = (Len(SeqOf(frame[t].n)) > 0)
                 /\ frame[t].n \notin DOMAIN listeners => ret[t] = FALSE
                 /\ (frame[t].n \in DOMAIN listeners
                        /\ listeners[frame[t].n].len = 0) => ret[t] = FALSE
        /\ Done(t, "On")
              => \A name \in Range(getNames(frame[t].n)) :
                     HasListeners(listeners, name)
        /\ (Done(t, "Off") /\ PreSeq(t, frame[t].n) = <<frame[t].l>>)
              => /\ frame[t].n \in DOMAIN listeners
                 /\ ~HasListeners(listeners, frame[t].n)

\* HasListeners returned false for a key that is present with an empty
\* sequence
C6_Witness ==
    /\ Done(Main, "HasListeners")
    /\ frame[Main].n \in DOMAIN listeners
    /\ listeners[frame[Main].n].len = 0
    /\ ret[Main] = FALSE

----------------------------------------------------------------------------
(* C7 *)

\* C7: when OffAll(n) returns, the key n is absent, HasListeners(n) is false
\* and the sequences of the other names are as they were; OffAll of an
\* absent name changes nothing; and a Dispatch of an event whose name is
\* absent invokes no listener.
C7_OffAll ==
    \A t \in Threads :
        /\ Done(t, "OffAll")
              => /\ frame[t].n \notin DOMAIN listeners
                 /\ ~HasListeners(listeners, frame[t].n)
                 /\ DOMAIN listeners = (DOMAIN pre[t]) \ {frame[t].n}
                 /\ \A k \in DOMAIN listeners : SeqOf(k) = pre[t][k]
                 /\ frame[t].n \notin DOMAIN pre[t]
                        => View(listeners, arrays) = pre[t]
        /\ (Done(t, "Dispatch") /\ frame[t].n \notin DOMAIN pre[t])
              => calls[t] = <<>>

\* OffAll returned for a name that had a Once wrapper and a persistent
\* listener
C7_Witness ==
    /\ Done(Main, "OffAll")
    /\ Len(PreSeq(Main, frame[Main].n)) >= 2
    /\ \E i, j \in 1..Len(PreSeq(Main, frame[Main].n)) :
           /\ PreSeq(Main, frame[Main].n)[i].kind = "once"
           /\ PreSeq(Main, frame[Main].n)[j].kind = "fn"
    /\ frame[Main].n \notin DOMAIN listeners

----------------------------------------------------------------------------
(* C8 *)

\* the places of string s where a name starts: a character other than a
\* space that is first in s or follows a space
Starts(s) == {i \in 1..Len(s) : s[i] # Sp /\ (i = 1 \/ s[i - 1] = Sp)}

\* the name of s that starts at place i: the characters up to the next space
NameAt(s, i) ==
    LET stop == CHOOSE j \in i..(Len(s) + 1) :
                    /\ (j = Len(s) + 1 \/ s[j] = Sp)
                    /\ \A m \in i..(j - 1) : s[m] # Sp
    IN  SubSeq(s, i, stop - 1)

\* the number of names of s that are equal to key
Times(s, key) == Cardinality({i \in Starts(s) : NameAt(s, i) = key})

\* x repeated c times
RECURSIVE Repeat(_, _)
Repeat(x, c) == IF c = 0 THEN <<>> ELSE <<x>> \o Repeat(x, c - 1)

\* C8: when On(names, l) returns, the sequence of every name of names is
\* what it was with l added at its end (once for each time the name stands
\* in names), every other sequence is as it was, the keys are the old keys
\* and the names of names, and with no name in names nothing has changed;
\* the names are the maximal space-free pieces of names, none of them empty.
C8_OnAppends ==
    \A t \in Threads :
        Done(t, "On")
            => /\ DOMAIN listeners
                      = (DOMAIN pre[t])
                            \cup {NameAt(frame[t].n, i) : i \in Starts(frame[t].n)}
               /\ \A k \in DOMAIN listeners :
                      SeqOf(k) = PreSeq(t, k)
                                    \o Repeat(frame[t].l, Times(frame[t].n, k))
               /\ Starts(frame[t].n) = {} => View(listeners, arrays) = pre[t]

\* On("a b", l) returned, the name a having had a listener before
C8_Witness ==
    /\ Done(Main, "On")
    /\ frame[Main].n = StrAB
    /\ Len(PreSeq(Main, StrA)) >= 1
    /\ Len(SeqOf(StrA)) = Len(PreSeq(Main, StrA)) + 1
    /\ Len(SeqOf(StrB)) = 1

\* On(" ", l) returned
C8_WitnessNoName ==
    /\ Done(Main, "On")
    /\ frame[Main].n = <<Sp>>
    /\ Total > 0

----------------------------------------------------------------------------
(* C9 *)

\* k1 and k2 name the same registry entry: nil stands for DefaultDispatcherKey
SameKey(k1, k2) ==
    \/ k1 = k2
    \/ {k1, k2} \subseteq {NoKey, DefaultDispatcherKey}

\* C9: with one goroutine, of the instances GetDispatcher has returned so
\* far, two are the same instance exactly when their keys are the same, nil
\* counting as DefaultDispatcherKey; none is nil; and an instance once
\* stored under a key stays there.
C9_OneInstancePerKey ==
    /\ \A p, q \in got : SameKey(p[1], q[1]) <=> (p[2] = q[2])
    /\ \A p \in got : /\ p[2] # NilDispatcher
                      /\ dispatchers # NilMap
                      /\ KeyOf(p[1]) \in DOMAIN maps[dispatchers]
                      /\ maps[dispatchers][KeyOf(p[1])] = p[2]

\* GetDispatcher has returned for nil, for DefaultDispatcherKey and for
\* another key
C9_Witness ==
    /\ \E d \in 1..MaxGets :
           {<<NoKey, d>>, <<DefaultDispatcherKey, d>>} \subseteq got
    /\ \E d \in 1..MaxGets : <<<<"f">>, d>> \in got
    /\ pc[Main] = "done"

----------------------------------------------------------------------------
(* C10 *)

\* C10 as claimed: with goroutines calling GetDispatcher concurrently, all
\* the calls for one key, concurrent or later, return the same instance.
C10_ConcurrentSameInstance ==
    \A p, q \in got : SameKey(p[1], q[1]) => p[2] = q[2]

----------------------------------------------------------------------------
(* C11 *)

\* C11 as claimed: every read of the map of listeners excludes every write
\* of it: in no state is one goroutine at the map read of HasListeners or
\* of Dispatch while another goroutine is at the map write of On, Once, Off
\* or OffAll.
C11_ReadExcludesWrite ==
    \A t, u \in Threads :
        t # u => ~(pc[t] \in MapRead /\ pc[u] \in MapWrite)

----------------------------------------------------------------------------
(* C12 *)

\* t's Dispatch is between the start of its loop and its return
InLoop(t) ==
    /\ frame[t].op = "Dispatch"
    /\ \/ pc[t] \in {"loop", "wrapperRUnlock", "Lock", "LockWait", "wrapperOff"}
       \/ pc[t] = "RLock" /\ frame[t].next = "loop"

\* this step is the map write of u's On, Off or OffAll, and changes the
\* listeners
Writes(u) ==
    /\ frame[u].op \in {"On", "Off", "OffAll"}
    /\ pc[u] \in MapWrite
    /\ pc'[u] \notin {pc[u], "fatal"}
    /\ <<listeners, arrays>>' # <<listeners, arrays>>

\* C12 as claimed: a Dispatch holds the read lock for the whole of its
\* loop: from the start of the loop to the return of Dispatch no On, Off or
\* OffAll of another goroutine changes the listeners, also when a listener
\* the loop invokes is a Once wrapper.
C12_LoopExcludesWriters ==
    [][\A t \in Threads :
          InLoop(t) => \A u \in Threads \ {t} : ~Writes(u)]_vars

----------------------------------------------------------------------------
(* C13 *)

\* C13: under a fair scheduler, with goroutines calling Dispatch, On, Once,
\* Off and OffAll, a Dispatch that has invoked a Once wrapper returns in
\* the end: the wrapper's RUnlock, Lock (in Off) and RLock never block for
\* ever.
C13_WrapperDispatchReturns ==
    \A t \in Threads : (pc[t] = "wrapperRUnlock") ~> Done(t, "Dispatch")

\* a Dispatch that invoked a Once wrapper has returned while the Once
\* wrapper of the other goroutine's Dispatch waits in Lock
C13_Witness ==
    /\ Done("t1", "Dispatch")
    /\ \E i \in 1..Len(calls["t1"]) : calls["t1"][i].kind = "once"
    /\ frame["t2"].op = "Dispatch"
    /\ pc["t2"] = "Lock"

----------------------------------------------------------------------------
(* C14 *)

\* C14 as claimed: Off(n, l) matches by identity: a listener l2 that is
\* another closure value than l, be it of the same func literal, is not
\* matched, so when Off(n, l) returns every registration of l2 on n is
\* still there.
C14_OffByIdentity ==
    \A t \in Threads :
        Done(t, "Off")
            => \A l2 \in Range(PreSeq(t, frame[t].n)) :
                   (l2 # frame[t].l /\ Pointer(l2) = Pointer(frame[t].l))
                       => Count(SeqOf(frame[t].n), l2)
                              = Count(PreSeq(t, frame[t].n), l2)

----------------------------------------------------------------------------
(* C17 *)

\* sequence s without its occurrences of x
Without(s, x) == SelectSeq(s, LAMBDA y : y # x)

\* C17 as claimed: Off(n, l) changes only the entries that are l: when it
\* returns, the listeners of n other than l are the same as before, in
\* order and in number, wherever and however often l stood among them, and
\* the sequences of the other names are unchanged.
C17_OffFrame ==
    \A t \in Threads :
        Done(t, "Off")
            => /\ Without(SeqOf(frame[t].n), frame[t].l)
                      = Without(PreSeq(t, frame[t].n), frame[t].l)
               /\ \A k \in (DOMAIN pre[t]) \ {frame[t].n} :
                      k \in DOMAIN listeners /\ SeqOf(k) = pre[t][k]

----------------------------------------------------------------------------
(* C15 *)

\* one of the first j listeners of sequence s stops the propagation
StoppedBy(s, j) == \E i \in 1..j : i <= Len(s) /\ Stops(s[i])

----------------------------------------------------------------------------
(* C16 *)

\* the parameters of event id other than k, and the events other than id,
\* are as they were when t's call started
OthersKept(t, id, k) ==
    /\ DOMAIN events = DOMAIN pre[t]
    /\ \A i \in (DOMAIN events) \ {id} : events[i] = pre[t][i]
    /\ (DOMAIN events[id].params) \ {k} = (DOMAIN pre[t][id].params) \ {k}
    /\ \A x \in (DOMAIN events[id].params) \ {k} :
           events[id].params[x] = pre[t][id].params[x]
    /\ events[id].name = pre[t][id].name
    /\ events[id].isPropagationStopped = pre[t][id].isPropagationStopped

\* C16: over every sequence of SetParam, RemoveParam, HasParam and GetParam
\* on a ParamsEvent: when SetParam(k, v) returns, GetParam(k) is (v, true)
\* and HasParam(k) is true; GetParam of a key that is not set returns
\* ("", false) and of a key that is set its value and true; when
\* RemoveParam(k) returns, HasParam(k) is false, and nothing has changed if
\* k was absent; SetParam and RemoveParam return the event they were called
\* on; and none of them changes another key.
C16_Params ==
    \A t \in Threads :
        /\ Done(t, "SetParam")
              => /\ GetParam(events[frame[t].e], frame[t].key)
                        = <<frame[t].v, TRUE>>
                 /\ HasParam(events[frame[t].e], frame[t].key)
                 /\ events[frame[t].e].params[frame[t].key] = frame[t].v
                 /\ ret[t] = frame[t].e
                 /\ OthersKept(t, frame[t].e, frame[t].key)
        /\ Done(t, "RemoveParam")
              => /\ ~HasParam(events[frame[t].e], frame[t].key)
                 /\ GetParam(events[frame[t].e], frame[t].key) = <<<<>>, FALSE>>
                 /\ ret[t] = frame[t].e
                 /\ OthersKept(t, frame[t].e, frame[t].key)
                 /\ frame[t].key \notin DOMAIN pre[t][frame[t].e].params
                        => events = pre[t]
        /\ Done(t, "HasParam")
              => /\ ret[t] = (frame[t].key \in DOMAIN events[frame[t].e].params)
                 /\ events = pre[t]
        /\ Done(t, "GetParam")
              => /\ ret[t] =
                        IF frame[t].key \in DOMAIN events[frame[t].e].params
                        THEN <<events[frame[t].e].params[frame[t].key], TRUE>>
                        ELSE <<<<>>, FALSE>>
                 /\ events = pre[t]
        /\ Done(t, "NewParamsEvent")
              => \A k \in ParamKeys :
                     /\ ~HasParam(events[ret[t]], k)
                     /\ GetParam(events[ret[t]], k) = <<<<>>, FALSE>>

\* RemoveParam(k) returned on an event that had k and another key set
C16_Witness ==
    /\ Done(Main, "RemoveParam")
    /\ DOMAIN pre[Main][frame[Main].e].params = ParamKeys
    /\ DOMAIN events[frame[Main].e].params = ParamKeys \ {frame[Main].key}
    /\ ret[Main] = frame[Main].e

----------------------------------------------------------------------------
(* C18 *)

\* C18 as claimed: with l registered once with Once(n, l) and goroutines
\* dispatching events named n concurrently, the wrapper of l, and so l, is
\* invoked at most once in total: never by two Dispatch calls, never twice
\* by one.
C18_OnceInvokedOnce ==
    \A t, u \in Threads :
        /\ Count(calls[t], OnceA) <= 1
        /\ t # u => Count(calls[t], OnceA) + Count(calls[u], OnceA) <= 1

----------------------------------------------------------------------------
(* C19 *)

\* the Dispatch calls that are in their loop, from the range expression to
\* the deferred RUnlock, and not in the removal step of a Once wrapper,
\* which goes from the wrapper's RUnlock to its RLock
InLoopHolding ==
    {t \in Threads : /\ frame[t].op = "Dispatch"
                     /\ pc[t] \in {"range", "loop", "wrapperRUnlock"}}

\* C19: the read lock is taken and released in balance: the number of read
\* holds is the number of Dispatch calls that are in their loop and not in
\* the removal step of a Once wrapper; no RUnlock runs with no reader
\* holding the lock; and with no operation in progress the lock is free,
\* also after Dispatch calls that invoked Once wrappers.
C19_ReadLockBalanced ==
    /\ rw.r = Cardinality(InLoopHolding)
    /\ \A t \in Threads :
           /\ pc[t] # "fatal"
           /\ pc[t] = "wrapperRUnlock" => rw.r > 0
           /\ (pc[t] = "loop" /\ LoopEnds(frame[t])) => rw.r > 0
    /\ (\A t \in Threads : pc[t] \in {"idle", "done"})
           => rw = [r |-> 0, w |-> NoThread]

\* no operation is in progress, a Dispatch that invoked two Once wrappers
\* having just returned
C19_Witness ==
    /\ Done("t1", "Dispatch")
    /\ Len(calls["t1"]) >= 2
    /\ \A i \in 1..Len(calls["t1"]) : calls["t1"][i].kind = "once"
    /\ pc["t2"] = "idle"
    /\ rw = [r |-> 0, w |-> NoThread]

----------------------------------------------------------------------------
(* C20 *)

\* C20 as claimed: in one goroutine, with no other goroutine contending, a
\* Dispatch returns in the end, also when a persistent listener it invokes
\* calls On, Off or OffAll of the same dispatcher, such as a listener that
\* removes itself with Off while it is invoked.
C20_ReentrantDispatchReturns ==
    (frame[Main].op = "Dispatch") ~> Done(Main, "Dispatch")

============================================================================
